---- MODULE Spec2Model ----
(***************************************************************************)
(* Manual top-K selection (backend/algorithms/top_k_zones.py) and manual   *)
(* anomaly detection (backend/algorithms/anomaly_detector.py), and the     *)
(* service that shares one selector between its requests                   *)
(* (backend/services/analytics_service.py).                                *)
(*                                                                         *)
(* A Python list is a TLA+ sequence; the Python index i is position i+1.   *)
(* A dict is the sequence of its (key, value) pairs in insertion order,    *)
(* keys distinct.  An exception leaving a method is the result record      *)
(* with status "IndexError".                                               *)
(***************************************************************************)
EXTENDS Integers, Sequences, FiniteSets, TLC

VARIABLES
    k,              \* TopKZones.k of the instance under test
    zone_counts,    \* the caller's dict {zone_id: score}
    route_counts,   \* the caller's dict {(pickup_id, dropoff_id): count}
    last,           \* the latest call on the selector and what it returned
    repeat,         \* what the call before returned, when it was the same call
    z_threshold,    \* AnomalyDetector.z_threshold
    stats_cache,    \* AnomalyDetector.stats_cache
    trips,          \* the caller's list of trip records
    found,          \* the latest detector operation, the records it emitted
                    \* and what it returned
    sample,         \* the list handed to the statistical helpers
    computed,       \* the latest helper call and what it returned
    requests        \* the requests served by the shared AnalyticsService

vars == <<k, zone_counts, route_counts, last, repeat, z_threshold, stats_cache, trips, found,
          sample, computed, requests>>

(***************************************************************************)
(* Bounds of the model.                                                    *)
(***************************************************************************)
MaxZones == 4       \* entries of a zone mapping
MaxRoutes == 2      \* entries of a route mapping
MaxK == 3           \* the largest k; k ranges over MinK .. MaxK

Scores == {1, 5, 7, 9}
MinK == 0 - 1
KValues == MinK..MaxK

Min(a, b) == IF a <= b THEN a ELSE b
Max(a, b) == IF a >= b THEN a ELSE b

\* the i-th key inserted into a zone mapping / a route mapping
ZoneId(i) == i
RouteId(i) == <<((i - 1) \div 2) + 1, ((i - 1) % 2) + 1>>

ZoneMappings ==
    UNION {{[i \in 1..n |-> <<ZoneId(i), s[i]>>] : s \in [1..n -> Scores]} : n \in 0..MaxZones}
RouteMappings ==
    UNION {{[i \in 1..n |-> <<RouteId(i), s[i]>>] : s \in [1..n -> Scores]} : n \in 0..MaxRoutes}

(***************************************************************************)
(* Python list primitives.                                                 *)
(***************************************************************************)
\* items[:stop]
PySlice(items, stop) ==
    LET n == Len(items)
        e == IF stop >= 0 THEN Min(stop, n) ELSE Max(n + stop, 0)
    IN  SubSeq(items, 1, e)

\* does items[i] exist (a negative i counts from the end)
PyInRange(items, i) == (0 - Len(items)) <= i /\ i < Len(items)

\* items[i]
PyIndex(items, i) == IF i >= 0 THEN items[i + 1] ELSE items[Len(items) + i + 1]

\* arr[i], arr[j] = arr[j], arr[i]
Swap(arr, i, j) == [arr EXCEPT ![i + 1] = arr[j + 1], ![j + 1] = arr[i + 1]]

Ok(value) == [status |-> "ok", value |-> value]
IndexError == [status |-> "IndexError", value |-> <<>>]
KeyError == [status |-> "KeyError", value |-> <<>>]
ZeroDivisionError == [status |-> "ZeroDivisionError", value |-> <<>>]

\* is x an exception on its way out rather than a value
raises(x) == "status" \in DOMAIN x /\ x.status # "ok"

\* d.get(key, default) of a dict d
dict_get(d, key, default) == IF key \in DOMAIN d THEN d[key] ELSE default

(***************************************************************************)
(* TopKZones                                                               *)
(***************************************************************************)
\* _heapify_down with the right child never compared
RECURSIVE _heapify_down_left_only(_, _)
_heapify_down_left_only(arr, idx) ==
    LET n == Len(arr)
        left == 2 * idx + 1
        smallest == IF left < n /\ arr[left + 1][2] < arr[idx + 1][2] THEN left ELSE idx
    IN  IF smallest # idx
        THEN _heapify_down_left_only(Swap(arr, idx, smallest), smallest)
        ELSE arr

\* smallest with the right child compared against arr[idx] instead of
\* arr[smallest]
smallest_index_against_parent(arr, idx) ==
    LET n == Len(arr)
        left == 2 * idx + 1
        right == 2 * idx + 2
        s1 == IF left < n /\ arr[left + 1][2] < arr[idx + 1][2] THEN left ELSE idx
    IN  IF right < n /\ arr[right + 1][2] < arr[idx + 1][2] THEN right ELSE s1

\* smallest in _heapify_down: idx, or the child of idx that the two
\* comparisons select
smallest_index(arr, idx) ==
    LET n == Len(arr)
        left == 2 * idx + 1
        right == 2 * idx + 2
        s1 == IF left < n /\ arr[left + 1][2] < arr[idx + 1][2] THEN left ELSE idx
    IN  IF right < n /\ arr[right + 1][2] < arr[s1 + 1][2] THEN right ELSE s1

RECURSIVE _heapify_down(_, _)
_heapify_down(arr, idx) ==
    LET smallest == smallest_index(arr, idx)
    IN  IF smallest # idx
        THEN _heapify_down(Swap(arr, idx, smallest), smallest)
        ELSE arr

\* the loop of _build_min_heap from index i down to 0
RECURSIVE build_from(_, _)
build_from(arr, i) ==
    IF i < 0 THEN arr ELSE build_from(_heapify_down(arr, i), i - 1)

_build_min_heap(arr) == build_from(arr, (Len(arr) \div 2) - 1)

\* heap[0] = (zone_id, count) with the heap left as the assignment made it
root_overwritten(heap, item) == [heap EXCEPT ![1] = item]

\* heap[0] = (zone_id, count); self._heapify_down(heap, 0)
replace_root(heap, item) == _heapify_down([heap EXCEPT ![1] = item], 0)

\* one pass of the loop with the root replaced by an item of equal score too
stream_step_inclusive(items, heap, i) ==
    IF ~PyInRange(items, i) THEN IndexError
    ELSE IF Len(heap) = 0 THEN IndexError
    ELSE IF PyIndex(items, i)[2] >= heap[1][2]
         THEN Ok(replace_root(heap, PyIndex(items, i)))
         ELSE Ok(heap)

\* one pass of the loop of _manual_top_k, for the item at index i
stream_step(items, heap, i) ==
    IF ~PyInRange(items, i) THEN IndexError               \* items[i]
    ELSE IF Len(heap) = 0 THEN IndexError                 \* heap[0]
    ELSE IF PyIndex(items, i)[2] > heap[1][2]
         THEN Ok(replace_root(heap, PyIndex(items, i)))
         ELSE Ok(heap)

\* the loop of _manual_top_k from index i on, with the heap as the passes
\* before it left it: range(k, len(items))
RECURSIVE stream_from(_, _, _)
stream_from(items, heap, i) ==
    IF i >= Len(items) THEN Ok(heap)
    ELSE LET step == stream_step(items, heap, i)
         IN  IF raises(step) THEN step ELSE stream_from(items, step.value, i + 1)

_manual_top_k(items, kk) ==
    IF Len(items) <= kk THEN Ok(items)
    ELSE stream_from(items, _build_min_heap(PySlice(items, kk)), kk)

\* the loop of _partition with entries equal to the pivot moved left as well
RECURSIVE partition_from_inclusive(_, _, _, _, _)
partition_from_inclusive(arr, pivot, i, j, high) ==
    IF j >= high
    THEN [arr |-> Swap(arr, i + 1, high), pi |-> i + 1]
    ELSE IF arr[j + 1][2] >= pivot
         THEN partition_from_inclusive(Swap(arr, i + 1, j), pivot, i + 1, j + 1, high)
         ELSE partition_from_inclusive(arr, pivot, i, j + 1, high)

\* the loop of _partition at index j, with i the last index of the "greater" part
RECURSIVE partition_from(_, _, _, _, _)
partition_from(arr, pivot, i, j, high) ==
    IF j >= high
    THEN [arr |-> Swap(arr, i + 1, high), pi |-> i + 1]
    ELSE IF arr[j + 1][2] > pivot
         THEN partition_from(Swap(arr, i + 1, j), pivot, i + 1, j + 1, high)
         ELSE partition_from(arr, pivot, i, j + 1, high)

_partition(arr, low, high) ==
    partition_from(arr, arr[high + 1][2], low - 1, low, high)

\* _quicksort with the recursion on the right part left out
RECURSIVE _quicksort_left_only(_, _, _)
_quicksort_left_only(arr, low, high) ==
    IF low < high
    THEN LET p == _partition(arr, low, high)
         IN  _quicksort_left_only(p.arr, low, p.pi - 1)
    ELSE arr

RECURSIVE _quicksort(_, _, _)
_quicksort(arr, low, high) ==
    IF low < high
    THEN LET p == _partition(arr, low, high)
         IN  _quicksort(_quicksort(p.arr, low, p.pi - 1), p.pi + 1, high)
    ELSE arr

_manual_sort_descending(arr) ==
    IF Len(arr) <= 1 THEN arr ELSE _quicksort(arr, 0, Len(arr) - 1)

\* [(key, value) for key, value in d.items()]: a new list, in insertion order
dict_items(d) == d

\* top_k = self._manual_top_k(items, k); return self._manual_sort_descending(top_k)
select_sorted(items, kk) ==
    LET top_k == _manual_top_k(items, kk)
    IN  IF top_k.status # "ok" THEN top_k ELSE Ok(_manual_sort_descending(top_k.value))

find_top_k_pickups(self_k, counts) == select_sorted(dict_items(counts), self_k)

find_top_k_by_revenue(self_k, revenue) == select_sorted(dict_items(revenue), self_k)

\* a per-call k: None, or an integer
None == [given |-> FALSE, val |-> 0]
Some(v) == [given |-> TRUE, val |-> v]

\* k or self.k: None and 0 are both falsy
py_or(karg, self_k) == IF karg.given /\ karg.val # 0 THEN karg.val ELSE self_k

find_top_routes(self_k, counts, karg) ==
    select_sorted(dict_items(counts), py_or(karg, self_k))

\* finder = TopKZones(kk), then the method the metric selects
get_top_zones(zone_data, kk, metric) ==
    IF metric = "revenue"
    THEN find_top_k_by_revenue(kk, zone_data)
    ELSE find_top_k_pickups(kk, zone_data)

\* the caller's collection after a call that sorted it in place instead of
\* building its own list
mapping_sorted_in_place(mapping, result) ==
    IF result.status = "ok" /\ Len(result.value) = Len(mapping) THEN result.value ELSE mapping

\* the caller's dict after a call: the methods sort the list built by
\* dict_items, never the dict they were handed
mapping_after_call(mapping, result) == mapping

(***************************************************************************)
(* Python floats.  A float is [m, e], the number m * 2^e, with m = 0 or    *)
(* MantissaBits significant bits in m; every operation returns the float   *)
(* nearest to the exact result, ties to even.  Python carries 53 bits; the *)
(* model carries MantissaBits of them.  A result of 2^1024 or more is an   *)
(* infinity, and an operation without a value (inf - inf, inf / inf,       *)
(* 0 * inf) is nan.                                                        *)
(***************************************************************************)
MantissaBits == 13

Pow2(n) == 2^n

RECURSIVE BitLen(_)
BitLen(a) == IF a = 0 THEN 0 ELSE 1 + BitLen(a \div 2)

Abs(x) == IF x < 0 THEN 0 - x ELSE x
Sign(x) == IF x < 0 THEN 0 - 1 ELSE 1

Zero == [m |-> 0, e |-> 0]

\* the exponent of the smallest positive float, 2^-1074
MIN_EXPONENT == 0 - 1074

\* the exponent of the largest floats, those from 2^1023 up to 2^1024
MAX_EXPONENT == 1024 - MantissaBits

\* float('inf') and -float('inf') (sign 1 and -1), and nan
Infinity(sign) == [m |-> sign, e |-> MAX_EXPONENT + 1]
NaN == [m |-> 0, e |-> MAX_EXPONENT + 1]

IsInf(a) == a.e > MAX_EXPONENT /\ a.m # 0
IsNaN(a) == a.e > MAX_EXPONENT /\ a.m = 0

\* the float nearest to n * 2^e: MantissaBits significant bits, fewer when
\* the exponent would fall below MIN_EXPONENT (gradual underflow, down to 0);
\* an infinity when the rounded value is 2^1024 or more
Norm(n, e) ==
    IF n = 0 THEN Zero
    ELSE LET a == Abs(n)
             b == BitLen(a)
             te == IF e + b - MantissaBits < MIN_EXPONENT
                   THEN MIN_EXPONENT ELSE e + b - MantissaBits
             s == te - e
         IN  IF te > MAX_EXPONENT THEN Infinity(Sign(n))
             ELSE IF s <= 0
             THEN [m |-> Sign(n) * a * Pow2(0 - s), e |-> te]
             ELSE LET q == a \div Pow2(s)
                      r == a % Pow2(s)
                      half == Pow2(s - 1)
                      q2 == IF r > half \/ (r = half /\ q % 2 = 1) THEN q + 1 ELSE q
                  IN  IF q2 = 0 THEN Zero
                      ELSE IF q2 = Pow2(MantissaBits)
                      THEN (IF te + 1 > MAX_EXPONENT THEN Infinity(Sign(n))
                            ELSE [m |-> Sign(n) * Pow2(MantissaBits - 1), e |-> te + 1])
                      ELSE [m |-> Sign(n) * q2, e |-> te]

FromInt(n) == Norm(n, 0)
Half == Norm(1, 0 - 1)

FNeg(a) == [m |-> 0 - a.m, e |-> a.e]
FAbs(a) == [m |-> Abs(a.m), e |-> a.e]

\* a + b with an infinity or nan among a and b
add_special(a, b) ==
    IF IsNaN(a) \/ IsNaN(b) THEN NaN
    ELSE IF IsInf(a) THEN (IF IsInf(b) /\ a.m # b.m THEN NaN ELSE a)
    ELSE b

\* a + b for finite a and b
add_finite(a, b) ==
    IF a.m = 0 THEN b
    ELSE IF b.m = 0 THEN a
    ELSE LET hi == IF a.e >= b.e THEN a ELSE b
             lo == IF a.e >= b.e THEN b ELSE a
             d == hi.e - lo.e
         IN  IF d > MantissaBits + 2 THEN hi
             ELSE Norm(hi.m * Pow2(d) + lo.m, lo.e)

FAdd(a, b) ==
    IF a.e > MAX_EXPONENT \/ b.e > MAX_EXPONENT THEN add_special(a, b)
    ELSE add_finite(a, b)

FSub(a, b) == FAdd(a, FNeg(b))

\* a * b with an infinity or nan among a and b
mul_special(a, b) ==
    IF IsNaN(a) \/ IsNaN(b) \/ a.m = 0 \/ b.m = 0 THEN NaN
    ELSE Infinity(Sign(a.m) * Sign(b.m))

FMul(a, b) ==
    IF a.e > MAX_EXPONENT \/ b.e > MAX_EXPONENT THEN mul_special(a, b)
    ELSE Norm(a.m * b.m, a.e + b.e)

\* a / b with an infinity or nan among a and b
div_special(a, b) ==
    IF IsNaN(a) \/ IsNaN(b) THEN NaN
    ELSE IF IsInf(a) THEN (IF IsInf(b) THEN NaN ELSE Infinity(Sign(a.m) * Sign(b.m)))
    ELSE Zero

\* a / b for b # 0; the last bit of the quotient is sticky
FDiv(a, b) ==
    IF a.e > MAX_EXPONENT \/ b.e > MAX_EXPONENT THEN div_special(a, b)
    ELSE IF a.m = 0 THEN Zero
    ELSE LET sa == MantissaBits - BitLen(Abs(a.m))
             num == Abs(a.m) * Pow2(sa) * Pow2(MantissaBits + 2)
             q == num \div Abs(b.m)
             r == num % Abs(b.m)
             n == 2 * q + (IF r # 0 THEN 1 ELSE 0)
         IN  Norm(Sign(a.m) * Sign(b.m) * n, a.e - sa - b.e - (MantissaBits + 3))

\* a < b with an infinity or nan among a and b: every comparison with nan
\* is False
lt_special(a, b) ==
    IF IsNaN(a) \/ IsNaN(b) THEN FALSE
    ELSE IF IsInf(a) THEN a.m < 0 /\ ~(IsInf(b) /\ b.m < 0)
    ELSE b.m > 0

FLt(a, b) ==
    IF a.e > MAX_EXPONENT \/ b.e > MAX_EXPONENT THEN lt_special(a, b)
    ELSE add_finite(a, FNeg(b)).m < 0
FGt(a, b) == FLt(b, a)
FLe(a, b) ==
    IF a.e > MAX_EXPONENT \/ b.e > MAX_EXPONENT
    THEN ~IsNaN(a) /\ ~IsNaN(b) /\ ~lt_special(b, a)
    ELSE ~(add_finite(b, FNeg(a)).m < 0)

\* the integer x * 2^s of a float x for which that is an integer
ScaledInt(x, s) ==
    IF x.e + s >= 0 THEN x.m * Pow2(x.e + s) ELSE x.m \div Pow2(0 - (x.e + s))

(***************************************************************************)
(* AnomalyDetector                                                         *)
(***************************************************************************)
NEWTON_ITERATIONS == 10
FARE_PER_MILE_MIN == 2
FARE_PER_MILE_MAX == 50
SPEED_MAX_MPH == 80
SPEED_MIN_MPH == 1
MINUTES_PER_HOUR == 60
AVERAGE_SPEED_MPH == 15
PERCENT == 100
OneAndHalf == Norm(3, 0 - 1)

\* the loop "for val in values: total += val" from position i on
RECURSIVE sum_from(_, _, _)
sum_from(values, i, total) ==
    IF i > Len(values) THEN total ELSE sum_from(values, i + 1, FAdd(total, values[i]))

_calculate_mean(values) ==
    IF Len(values) = 0 THEN Zero
    ELSE FDiv(sum_from(values, 1, Zero), FromInt(Len(values)))

\* the loop "x = (x + n / x) / 2.0", i iterations left
RECURSIVE newton(_, _, _)
newton(n, x, i) ==
    IF i = 0 THEN x
    ELSE IF x = Zero THEN ZeroDivisionError               \* n / x
    ELSE newton(n, FDiv(FAdd(x, FDiv(n, x)), FromInt(2)), i - 1)

_manual_sqrt(n) ==
    IF FLt(n, Zero) THEN Zero
    ELSE IF n = Zero THEN Zero
    ELSE newton(n, FDiv(n, FromInt(2)), NEWTON_ITERATIONS)

\* the loop "diff = val - mean; squared_diffs += diff * diff" from position i on
RECURSIVE squared_diffs_from(_, _, _, _)
squared_diffs_from(values, mean, i, acc) ==
    IF i > Len(values) THEN acc
    ELSE LET diff == FSub(values[i], mean)
         IN  squared_diffs_from(values, mean, i + 1, FAdd(acc, FMul(diff, diff)))

_calculate_std(values, mean) ==
    IF Len(values) = 0 THEN Zero
    ELSE _manual_sqrt(FDiv(squared_diffs_from(values, mean, 1, Zero), FromInt(Len(values))))

\* an emitted record; its rounded display fields (z_score, fare_per_mile,
\* speed_mph) and the copies of fare, distance and duration are left out
Anomaly(i, trip, reason) == [index |-> i, trip_id |-> trip.trip_id, reason |-> reason]

\* the z-score check of trip i (lines 51-60): the records it appends
fare_outlier_check(i, trip, fare_mean, fare_std, threshold) ==
    IF FGt(fare_std, Zero)
    THEN LET z_score == FDiv(FSub(trip.fare_amount, fare_mean), fare_std)
         IN  IF FGt(FAbs(z_score), threshold)
             THEN <<Anomaly(i, trip, "fare_outlier")>>
             ELSE <<>>
    ELSE <<>>

\* the fare-per-mile check with the range ends 2 and 50 flagged too
fare_per_mile_check_inclusive(i, trip) ==
    IF FGt(trip.trip_distance, Zero)
    THEN LET fare_per_mile == FDiv(trip.fare_amount, trip.trip_distance)
         IN  IF FLe(fare_per_mile, FromInt(2)) \/ FLe(FromInt(50), fare_per_mile)
             THEN <<Anomaly(i, trip, "fare_per_mile_anomaly")>>
             ELSE <<>>
    ELSE <<>>

\* the fare-per-mile check of trip i (lines 63-74): the records it appends
fare_per_mile_check(i, trip) ==
    IF FGt(trip.trip_distance, Zero)
    THEN LET fare_per_mile == FDiv(trip.fare_amount, trip.trip_distance)
         IN  IF FLt(fare_per_mile, FromInt(FARE_PER_MILE_MIN))
                \/ FGt(fare_per_mile, FromInt(FARE_PER_MILE_MAX))
             THEN <<Anomaly(i, trip, "fare_per_mile_anomaly")>>
             ELSE <<>>
    ELSE <<>>

\* the loop body with the fare-per-mile check as the else branch of the
\* z-score check
fare_checks_elif(i, trip, fare_mean, fare_std, threshold) ==
    IF fare_outlier_check(i, trip, fare_mean, fare_std, threshold) # <<>>
    THEN fare_outlier_check(i, trip, fare_mean, fare_std, threshold)
    ELSE fare_per_mile_check(i, trip)

\* the loop body with the fare-per-mile check ahead of the z-score check
fare_checks_per_mile_first(i, trip, fare_mean, fare_std, threshold) ==
    fare_per_mile_check(i, trip) \o fare_outlier_check(i, trip, fare_mean, fare_std, threshold)

\* the body of the loop of detect_fare_anomalies for trip i
fare_checks(i, trip, fare_mean, fare_std, threshold) ==
    fare_outlier_check(i, trip, fare_mean, fare_std, threshold) \o fare_per_mile_check(i, trip)

\* the loop "for i, trip in enumerate(trips)" from index i on
RECURSIVE fare_loop(_, _, _, _, _, _)
fare_loop(ts, i, fare_mean, fare_std, threshold, anomalies) ==
    IF i >= Len(ts) THEN anomalies
    ELSE fare_loop(ts, i + 1, fare_mean, fare_std, threshold,
                   anomalies \o fare_checks(i, ts[i + 1], fare_mean, fare_std, threshold))

\* fares = [t['fare_amount'] for t in trips]
fares_of(ts) == [j \in 1..Len(ts) |-> ts[j].fare_amount]

\* detect_fare_anomalies once fare_mean and fare_std are known: an exception
\* of _calculate_std ends the call
fare_with_stats(threshold, ts, fare_mean, fare_std) ==
    IF raises(fare_std) THEN fare_std
    ELSE Ok(fare_loop(ts, 0, fare_mean, fare_std, threshold, <<>>))

\* detect_fare_anomalies once fare_mean is known
fare_with_mean(threshold, ts, fares, fare_mean) ==
    fare_with_stats(threshold, ts, fare_mean, _calculate_std(fares, fare_mean))

detect_fare_anomalies(threshold, ts) ==
    IF Len(ts) = 0 THEN Ok(<<>>)
    ELSE IF \E j \in 1..Len(ts) : "fare_amount" \notin DOMAIN ts[j] THEN KeyError
    ELSE IF \E j \in 1..Len(ts) : "trip_distance" \notin DOMAIN ts[j] THEN KeyError
    ELSE fare_with_mean(threshold, ts, fares_of(ts), _calculate_mean(fares_of(ts)))

\* speed_mph = (distance / duration) * 60
speed_mph(distance, duration) == FMul(FDiv(distance, duration), FromInt(MINUTES_PER_HOUR))

\* the speed checks with 80 mph flagged too
speed_checks_inclusive(i, trip) ==
    LET distance == dict_get(trip, "trip_distance", Zero)
        duration == dict_get(trip, "trip_duration_min", Zero)
    IN  IF FLe(duration, Zero) \/ FLe(distance, Zero) THEN <<>>
        ELSE IF FLe(FromInt(80), speed_mph(distance, duration))
             THEN <<Anomaly(i, trip, "speed_too_high")>>
        ELSE IF FLt(speed_mph(distance, duration), FromInt(1)) /\ FGt(distance, Half)
             THEN <<Anomaly(i, trip, "speed_too_low")>>
        ELSE <<>>

\* the body of the loop of detect_speed_anomalies for trip i
speed_checks(i, trip) ==
    LET distance == dict_get(trip, "trip_distance", Zero)
        duration == dict_get(trip, "trip_duration_min", Zero)
    IN  IF FLe(duration, Zero) \/ FLe(distance, Zero) THEN <<>>
        ELSE IF FGt(speed_mph(distance, duration), FromInt(SPEED_MAX_MPH))
             THEN <<Anomaly(i, trip, "speed_too_high")>>
        ELSE IF FLt(speed_mph(distance, duration), FromInt(SPEED_MIN_MPH)) /\ FGt(distance, Half)
             THEN <<Anomaly(i, trip, "speed_too_low")>>
        ELSE <<>>

RECURSIVE speed_loop(_, _, _)
speed_loop(ts, i, anomalies) ==
    IF i >= Len(ts) THEN anomalies
    ELSE speed_loop(ts, i + 1, anomalies \o speed_checks(i, ts[i + 1]))

detect_speed_anomalies(ts) == speed_loop(ts, 0, <<>>)

\* expected_duration = (distance / 15) * 60
expected_duration(distance) ==
    FMul(FDiv(distance, FromInt(AVERAGE_SPEED_MPH)), FromInt(MINUTES_PER_HOUR))

\* the body of the loop of detect_distance_time_mismatch for trip i
mismatch_checks(i, trip) ==
    LET distance == dict_get(trip, "trip_distance", Zero)
        duration == dict_get(trip, "trip_duration_min", Zero)
    IN  IF FLe(distance, Zero) \/ FLe(duration, Zero) THEN <<>>
        ELSE LET min_expected == FMul(expected_duration(distance), Half)
                 max_expected == FMul(expected_duration(distance), OneAndHalf)
             IN  IF FLt(duration, min_expected) \/ FGt(duration, max_expected)
                 THEN <<Anomaly(i, trip, "distance_time_mismatch")>>
                 ELSE <<>>

RECURSIVE mismatch_loop(_, _, _)
mismatch_loop(ts, i, anomalies) ==
    IF i >= Len(ts) THEN anomalies
    ELSE mismatch_loop(ts, i + 1, anomalies \o mismatch_checks(i, ts[i + 1]))

detect_distance_time_mismatch(ts) == mismatch_loop(ts, 0, <<>>)

\* len(all_indices) with every record counted, a trip once per record
count_all_records(lists) == Len(lists[1]) + Len(lists[2]) + Len(lists[3])

\* len(all_indices): all_indices is the set of the index fields of the
\* records of the three lists
count_unique_indices(lists) ==
    Cardinality(UNION {{lists[p][r].index : r \in 1..Len(lists[p])} : p \in 1..3})

\* the dict detect_all_anomalies returns, total being len(all_indices)
all_results(ts, fare, speed, mismatch, total) ==
    [fare_anomalies |-> fare,
     speed_anomalies |-> speed,
     mismatch_anomalies |-> mismatch,
     total_anomalous_trips |-> total,
     anomaly_rate |-> IF Len(ts) > 0
                      THEN FDiv(FromInt(total), FromInt(Len(ts)))
                      ELSE Zero]

\* detect_all_anomalies with all_indices a list: every record counted
all_of_passes_by_records(ts, fare, speed, mismatch) ==
    all_results(ts, fare, speed, mismatch, count_all_records(<<fare, speed, mismatch>>))

\* detect_all_anomalies once its three passes have returned
all_of_passes(ts, fare, speed, mismatch) ==
    all_results(ts, fare, speed, mismatch, count_unique_indices(<<fare, speed, mismatch>>))

\* detect_all_anomalies after its first pass: an exception of the fare pass
\* ends the call
all_after_fare(ts, fare) ==
    IF raises(fare) THEN fare
    ELSE Ok(all_of_passes(ts, fare.value, detect_speed_anomalies(ts),
                          detect_distance_time_mismatch(ts)))

detect_all_anomalies(threshold, ts) ==
    all_after_fare(ts, detect_fare_anomalies(threshold, ts))

\* round(x, 2) as the number of hundredths: the integer nearest to 100 * x,
\* a tie going to the even one
round_hundredths(x) ==
    LET n == PERCENT * x.m
    IN  IF x.e >= 0 THEN n * Pow2(x.e)
        ELSE LET a == Abs(n)
                 q == a \div Pow2(0 - x.e)
                 r == a % Pow2(0 - x.e)
                 half == Pow2(0 - x.e - 1)
             IN  Sign(n) * (IF r > half \/ (r = half /\ q % 2 = 1) THEN q + 1 ELSE q)

\* the summary with each pass counted in distinct trips instead of records
summary_counting_trips(ts, results) ==
    [total_trips |-> Len(ts),
     total_anomalies |-> results.total_anomalous_trips,
     anomaly_rate_percent |->
         round_hundredths(FMul(results.anomaly_rate, FromInt(PERCENT))),
     fare_anomalies |->
         count_unique_indices(<<results.fare_anomalies, <<>>, <<>>>>),
     speed_anomalies |->
         count_unique_indices(<<results.speed_anomalies, <<>>, <<>>>>),
     mismatch_anomalies |->
         count_unique_indices(<<results.mismatch_anomalies, <<>>, <<>>>>)]

\* the summary dict built from the results of detect_all_anomalies;
\* anomaly_rate_percent is kept in hundredths of a percent
summary_of(ts, results) ==
    [total_trips |-> Len(ts),
     total_anomalies |-> results.total_anomalous_trips,
     anomaly_rate_percent |->
         round_hundredths(FMul(results.anomaly_rate, FromInt(PERCENT))),
     fare_anomalies |-> Len(results.fare_anomalies),
     speed_anomalies |-> Len(results.speed_anomalies),
     mismatch_anomalies |-> Len(results.mismatch_anomalies)]

\* get_anomaly_summary after results = self.detect_all_anomalies(trips)
summary_after_all(ts, results) ==
    IF raises(results) THEN results ELSE Ok(summary_of(ts, results.value))

get_anomaly_summary(threshold, ts) ==
    summary_after_all(ts, detect_all_anomalies(threshold, ts))

\* detector = AnomalyDetector(z_threshold=threshold); detect_all_anomalies
find_anomalies(ts, threshold) == detect_all_anomalies(threshold, ts)

(***************************************************************************)
(* The selector as a state machine: one action per public operation.       *)
(***************************************************************************)
DEFAULT_K == 10
DEFAULT_Z_THRESHOLD == 3

NoCall == [op |-> "none", karg |-> None, metric |-> "", result |-> Ok(<<>>)]

Call(op, karg, metric, result) ==
    [op |-> op, karg |-> karg, metric |-> metric, result |-> result]

SameCall(a, b) == a.op = b.op /\ a.karg = b.karg /\ a.metric = b.metric

NoRepeat == [valid |-> FALSE, result |-> Ok(<<>>)]

MaxRequests == 2     \* concurrent requests on one service
Idle == [pc |-> "idle", op |-> "", k |-> 0, metric |-> "", result |-> Ok(<<>>)]
\* a run without a service has no requests
NoRequests == <<>>
\* the requests of a service, none of them started
IdleRequests == [r \in 1..MaxRequests |-> Idle]

Record(call) ==
    /\ last' = call
    /\ repeat' = IF SameCall(last, call)
                 THEN [valid |-> TRUE, result |-> last.result]
                 ELSE NoRepeat

\* what a detector operation leaves behind: how it ended, the records it
\* emitted and, for the two reports, the dict it returned
Pass(op, status, anomalies, result) ==
    [op |-> op, status |-> status, anomalies |-> anomalies, result |-> result]

NoPass == Pass("none", "ok", <<>>, <<>>)

NoComputation == [op |-> "none", arg |-> Zero, result |-> Zero]

\* AnomalyDetector(): the default threshold, an empty cache, nothing analysed
DetectorIdle ==
    /\ z_threshold = FromInt(DEFAULT_Z_THRESHOLD)
    /\ stats_cache = <<>>
    /\ trips = <<>>
    /\ found = NoPass
    /\ sample = <<>>
    /\ computed = NoComputation

\* TopKZones(): the default k, nothing selected
SelectorIdle ==
    /\ k = DEFAULT_K
    /\ zone_counts = <<>>
    /\ route_counts = <<>>
    /\ last = NoCall
    /\ repeat = NoRepeat
    /\ requests = NoRequests

detector_vars == <<z_threshold, stats_cache, trips, found, sample, computed>>
helper_vars == <<sample, computed>>
selector_vars == <<k, zone_counts, route_counts, last, repeat, requests>>

ZonesInit ==
    /\ k \in KValues
    /\ zone_counts \in ZoneMappings
    /\ route_counts = <<>>
    /\ last = NoCall
    /\ repeat = NoRepeat
    /\ requests = NoRequests
    /\ DetectorIdle

RoutesInit ==
    /\ k \in KValues
    /\ zone_counts = <<>>
    /\ route_counts \in RouteMappings
    /\ last = NoCall
    /\ repeat = NoRepeat
    /\ requests = NoRequests
    /\ DetectorIdle

FindTopKPickups ==
    LET r == find_top_k_pickups(k, zone_counts)
    IN  /\ Record(Call("find_top_k_pickups", None, "", r))
        /\ zone_counts' = mapping_after_call(zone_counts, r)
        /\ UNCHANGED <<k, route_counts, requests, detector_vars>>

FindTopKByRevenue ==
    LET r == find_top_k_by_revenue(k, zone_counts)
    IN  /\ Record(Call("find_top_k_by_revenue", None, "", r))
        /\ zone_counts' = mapping_after_call(zone_counts, r)
        /\ UNCHANGED <<k, route_counts, requests, detector_vars>>

\* the instance's k after a find_top_routes that stored the k it selected with
k_stored_by_call(self_k, karg) == py_or(karg, self_k)

\* the instance's k after find_top_routes: k = k or self.k binds the local
\* name k, self.k is only read
k_after_call(self_k, karg) == self_k

FindTopRoutes ==
    \E karg \in {None} \cup {Some(v) : v \in KValues} :
        LET r == find_top_routes(k, route_counts, karg)
        IN  /\ Record(Call("find_top_routes", karg, "", r))
            /\ route_counts' = mapping_after_call(route_counts, r)
            /\ k' = k_after_call(k, karg)
            /\ UNCHANGED <<zone_counts, requests, detector_vars>>

GetTopZones ==
    \E kk \in KValues, metric \in {"count", "revenue"} :
        LET r == get_top_zones(zone_counts, kk, metric)
        IN  /\ Record(Call("get_top_zones", Some(kk), metric, r))
            /\ zone_counts' = mapping_after_call(zone_counts, r)
            /\ UNCHANGED <<k, route_counts, requests, detector_vars>>

ZonesNext == FindTopKPickups \/ FindTopKByRevenue \/ GetTopZones
RoutesNext == FindTopRoutes
Next == FindTopKPickups \/ FindTopKByRevenue \/ GetTopZones \/ FindTopRoutes

\* the zone operations on a zone mapping
SpecZones == ZonesInit /\ [][ZonesNext]_vars
\* the route operation on a route mapping
SpecRoutes == RoutesInit /\ [][RoutesNext]_vars
\* every operation of the selector, on a zone mapping or on a route mapping
Spec == (ZonesInit \/ RoutesInit) /\ [][Next]_vars

(***************************************************************************)
(* The detector as a state machine: one action per detection pass.         *)
(***************************************************************************)
MaxTrips == 3       \* trips in the analysed list

\* fare in dollars, distance in half miles, duration in minutes
TripKinds == {
    <<10, 10, 20>>,     \* 2 dollars a mile, 15 mph
    <<100, 4, 0>>,      \* 50 dollars a mile, no duration
    <<100, 2, 10>>,     \* 100 dollars a mile, 6 mph
    <<10, 20, 5>>,      \* 1 dollar a mile, 120 mph
    <<10, 0, 10>>,      \* no distance
    <<6000, 8, 3>>,     \* a very large fare, 80 mph
    <<0, 2, 120>>,      \* no fare, half a mph over one mile
    <<10, 1, 60>> }     \* 20 dollars a mile, half a mph over half a mile

Trip(j, kind) ==
    [trip_id |-> 100 + j,
     fare_amount |-> FromInt(kind[1]),
     trip_distance |-> Norm(kind[2], 0 - 1),
     trip_duration_min |-> FromInt(kind[3])]

TripLists ==
    UNION {{[j \in 1..n |-> Trip(j, c[j])] : c \in [1..n -> TripKinds]} : n \in 0..MaxTrips}

ZThresholds == {FromInt(1), FromInt(DEFAULT_Z_THRESHOLD)}

DetectorInit ==
    /\ z_threshold \in ZThresholds
    /\ stats_cache = <<>>
    /\ trips \in TripLists
    /\ found = NoPass
    /\ sample = <<>>
    /\ computed = NoComputation
    /\ SelectorIdle

\* the caller's list after a pass that marked every record it looked at
trips_marked_in_place(ts) ==
    [j \in 1..Len(ts) |->
        [f \in DOMAIN ts[j] \cup {"checked"} |-> IF f = "checked" THEN TRUE ELSE ts[j][f]]]

\* the caller's list after a call: the passes read trip[...] and trip.get(...)
\* and append to a list of their own
trips_after_call(ts) == ts

\* the instance's cache after a call: no method writes self.stats_cache
cache_after_call(cache, ts) == cache

\* what every detector operation does to the instance and to the caller's list
DetectorFrame ==
    /\ trips' = trips_after_call(trips)
    /\ stats_cache' = cache_after_call(stats_cache, trips)
    /\ UNCHANGED <<z_threshold, helper_vars, selector_vars>>

\* what the fare pass leaves behind: r is what it returned
FarePass(r) == Pass("detect_fare_anomalies", r.status, r.value, <<>>)

DetectFareAnomalies ==
    /\ found' = FarePass(detect_fare_anomalies(z_threshold, trips))
    /\ DetectorFrame

DetectSpeedAnomalies ==
    /\ found' = Pass("detect_speed_anomalies", "ok", detect_speed_anomalies(trips), <<>>)
    /\ DetectorFrame

DetectDistanceTimeMismatch ==
    /\ found' = Pass("detect_distance_time_mismatch", "ok",
                     detect_distance_time_mismatch(trips), <<>>)
    /\ DetectorFrame

\* the records a report emitted, pass after pass
emitted(results) ==
    results.fare_anomalies \o results.speed_anomalies \o results.mismatch_anomalies

\* what a report leaves behind: r is what it returned, all what its
\* detect_all_anomalies returned
ReportPass(op, r, all) ==
    IF raises(r)
    THEN Pass(op, r.status, <<>>, <<>>)
    ELSE Pass(op, "ok", emitted(all.value), r.value)

DetectAllAnomalies ==
    /\ found' = ReportPass("detect_all_anomalies",
                           detect_all_anomalies(z_threshold, trips),
                           detect_all_anomalies(z_threshold, trips))
    /\ DetectorFrame

GetAnomalySummary ==
    /\ found' = ReportPass("get_anomaly_summary",
                           get_anomaly_summary(z_threshold, trips),
                           detect_all_anomalies(z_threshold, trips))
    /\ DetectorFrame

DetectorNext == DetectFareAnomalies \/ DetectSpeedAnomalies

SpecDetector == DetectorInit /\ [][DetectorNext]_vars

(***************************************************************************)
(* The detector with its third pass and its two reports.                   *)
(***************************************************************************)
\* fare in dollars, distance in half miles, duration in minutes; a trip of d
\* miles is expected to take 4 * d minutes
ReportKinds == {
    <<10, 10, 10>>,     \* 5 miles in half the expected time
    <<100, 2, 4>>,      \* 100 dollars a mile, 1 mile in the expected 4 minutes
    <<10, 20, 5>>,      \* 1 dollar a mile, 120 mph, an eighth of the expected time
    <<62, 62, 62>>,     \* 31 miles in half the expected time
    <<10, 0, 10>>,      \* no distance
    <<10, 10, 0>> }     \* no duration

ReportTripLists ==
    UNION {{[j \in 1..n |-> Trip(j, c[j])] : c \in [1..n -> ReportKinds]} : n \in 0..MaxTrips}

\* AnomalyDetector(z_threshold=1.0): three trips can lie no further than
\* 1.42 standard deviations from their mean
ReportInit ==
    /\ z_threshold = FromInt(1)
    /\ stats_cache = <<>>
    /\ trips \in ReportTripLists
    /\ found = NoPass
    /\ sample = <<>>
    /\ computed = NoComputation
    /\ SelectorIdle

ReportNext ==
    \/ DetectFareAnomalies
    \/ DetectSpeedAnomalies
    \/ DetectDistanceTimeMismatch
    \/ DetectAllAnomalies
    \/ GetAnomalySummary

SpecReport == ReportInit /\ [][ReportNext]_vars

(***************************************************************************)
(* The detector on degenerate input: records with a field missing, and     *)
(* zero, negative and very small numbers.                                  *)
(***************************************************************************)
Miles(n) == FromInt(n)
Minutes(n) == FromInt(n)
Dollars(n) == FromInt(n)

\* 2^-536 dollars: its square is 4 times the smallest positive float
TinyFare == Norm(1, 0 - 536)

DegenerateKinds == {
    [fare_amount |-> Dollars(10), trip_distance |-> Miles(10), trip_duration_min |-> Minutes(5)],
    [fare_amount |-> Dollars(10), trip_distance |-> Miles(10)],
    [fare_amount |-> Dollars(10), trip_duration_min |-> Minutes(5)],
    [trip_distance |-> Miles(10), trip_duration_min |-> Minutes(5)],
    [fare_amount |-> Dollars(100), trip_distance |-> Miles(0 - 1), trip_duration_min |-> Minutes(5)],
    [fare_amount |-> Zero, trip_distance |-> Miles(1), trip_duration_min |-> Zero],
    [fare_amount |-> TinyFare, trip_distance |-> Miles(1), trip_duration_min |-> Minutes(4)] }

\* the j-th trip of a list: the fields of its kind and a trip_id
DegenerateTrip(j, kind) ==
    [f \in DOMAIN kind \cup {"trip_id"} |-> IF f = "trip_id" THEN 100 + j ELSE kind[f]]

DegenerateTripLists ==
    UNION {{[j \in 1..n |-> DegenerateTrip(j, c[j])] : c \in [1..n -> DegenerateKinds]} :
              n \in 0..MaxTrips}

DegenerateInit ==
    /\ z_threshold = FromInt(1)
    /\ stats_cache = <<>>
    /\ trips \in DegenerateTripLists
    /\ found = NoPass
    /\ sample = <<>>
    /\ computed = NoComputation
    /\ SelectorIdle

SpecDegenerate == DegenerateInit /\ [][ReportNext]_vars

(***************************************************************************)
(* The speed pass and the mismatch pass on the same trips.                 *)
(***************************************************************************)
\* fare in dollars, distance in half miles, duration in minutes
PaceKinds == {
    <<10, 20, 5>>,      \* 120 mph: 10 miles in an eighth of the expected time
    <<10, 2, 120>>,     \* half a mph over one mile, 30 times the expected time
    <<10, 10, 5>>,      \* 60 mph: 5 miles in a quarter of the expected time
    <<10, 10, 20>>,     \* 15 mph: 5 miles in the expected time
    <<10, 8, 3>> }      \* exactly 80 mph: 4 miles in 3 minutes

\* a trip at 3 dollars a mile whose duration is float('inf') over a distance
\* of 2^1022 miles
Endless(j) ==
    [trip_id |-> 100 + j,
     fare_amount |-> Norm(3, 1022),
     trip_distance |-> Norm(1, 1022),
     trip_duration_min |-> Infinity(1)]

\* trip j of a kind, or the endless trip for the empty kind
PaceTrip(j, kind) == IF kind = <<>> THEN Endless(j) ELSE Trip(j, kind)

PaceTripLists ==
    UNION {{[j \in 1..n |-> PaceTrip(j, c[j])] : c \in [1..n -> PaceKinds \cup {<<>>}]} :
               n \in 0..MaxTrips}

PaceInit ==
    /\ z_threshold = FromInt(DEFAULT_Z_THRESHOLD)
    /\ stats_cache = <<>>
    /\ trips \in PaceTripLists
    /\ found = NoPass
    /\ sample = <<>>
    /\ computed = NoComputation
    /\ SelectorIdle

PaceNext ==
    \/ DetectSpeedAnomalies
    \/ DetectDistanceTimeMismatch
    \/ DetectAllAnomalies

SpecPace == PaceInit /\ [][PaceNext]_vars

(***************************************************************************)
(* The fare pass at the default threshold on up to ten trips, all of one   *)
(* fare but for one.                                                       *)
(***************************************************************************)
MaxFew == 10        \* trips in a list of few trips

FewFares == {1, 8, 12, 59}

\* n trips of one mile in ten minutes: fare b at position p, fare a elsewhere
FewTrips(n, p, a, b) ==
    [j \in 1..n |-> Trip(j, <<IF j = p THEN b ELSE a, 2, 10>>)]

FewTripLists ==
    UNION {{FewTrips(n, p, a, b) : p \in {1, n}, a \in FewFares, b \in FewFares} :
               n \in 1..MaxFew}

FewInit ==
    /\ z_threshold = FromInt(DEFAULT_Z_THRESHOLD)
    /\ stats_cache = <<>>
    /\ trips \in FewTripLists
    /\ found = NoPass
    /\ sample = <<>>
    /\ computed = NoComputation
    /\ SelectorIdle

FewNext ==
    \/ DetectFareAnomalies
    \/ DetectAllAnomalies

SpecFew == FewInit /\ [][FewNext]_vars

(***************************************************************************)
(* The statistical helpers of the detector, called on their own.           *)
(***************************************************************************)
MaxSample == 3      \* values in the list handed to a helper

\* 0.1: the float nearest to one tenth
OneTenth == FDiv(FromInt(1), FromInt(10))

\* the smallest positive float
SmallestFloat == Norm(1, MIN_EXPONENT)

SampleValues == {Zero, FromInt(10), FromInt(0 - 3), OneTenth, FromInt(2500)}

SampleLists == UNION {[1..n -> SampleValues] : n \in 0..MaxSample}

SqrtInputs ==
    {FromInt(0 - 4), Zero, FromInt(4), FromInt(2), OneTenth, FromInt(1000000), SmallestFloat}

HelperInit ==
    /\ z_threshold = FromInt(DEFAULT_Z_THRESHOLD)
    /\ stats_cache = <<>>
    /\ trips = <<>>
    /\ found = NoPass
    /\ sample \in SampleLists
    /\ computed = NoComputation
    /\ SelectorIdle

Computation(op, arg, result) == [op |-> op, arg |-> arg, result |-> result]

\* what a helper does to the instance and to the list it was handed
HelperFrame == UNCHANGED <<sample, z_threshold, stats_cache, trips, found, selector_vars>>

CalculateMean ==
    /\ computed' = Computation("_calculate_mean", Zero, _calculate_mean(sample))
    /\ HelperFrame

\* _calculate_std(values): mean is None, so the helper computes it
CalculateStd ==
    /\ computed' = Computation("_calculate_std", Zero,
                               _calculate_std(sample, _calculate_mean(sample)))
    /\ HelperFrame

ManualSqrt ==
    \E n \in SqrtInputs :
        /\ computed' = Computation("_manual_sqrt", n, _manual_sqrt(n))
        /\ HelperFrame

HelperNext == CalculateMean \/ CalculateStd \/ ManualSqrt

SpecHelpers == HelperInit /\ [][HelperNext]_vars

(***************************************************************************)
(* _manual_top_k pass by pass: sample is the list of items, computed the   *)
(* heap after the last pass and the index of the item the next pass takes. *)
(***************************************************************************)
MaxItems == 5       \* entries in the list handed to _manual_top_k

HeapScores == {1, 5, 9}

HeapItemLists ==
    UNION {{[i \in 1..n |-> <<ZoneId(i), s[i]>>] : s \in [1..n -> HeapScores]} :
           n \in 0..MaxItems}

HeapInit ==
    /\ k \in MinK..MaxItems
    /\ zone_counts = <<>>
    /\ route_counts = <<>>
    /\ last = NoCall
    /\ repeat = NoRepeat
    /\ requests = NoRequests
    /\ z_threshold = FromInt(DEFAULT_Z_THRESHOLD)
    /\ stats_cache = <<>>
    /\ trips = <<>>
    /\ found = NoPass
    /\ sample \in HeapItemLists
    /\ computed = NoComputation

HeapFrame == UNCHANGED <<sample, z_threshold, stats_cache, trips, found, selector_vars>>

\* if len(items) <= k: return items
ReturnItems ==
    /\ computed.op = "none"
    /\ Len(sample) <= k
    /\ computed' = Computation("return", Len(sample), Ok(sample))
    /\ HeapFrame

\* heap = items[:k]; self._build_min_heap(heap)
BuildMinHeap ==
    /\ computed.op = "none"
    /\ ~(Len(sample) <= k)
    /\ computed' = Computation("_build_min_heap", k, Ok(_build_min_heap(PySlice(sample, k))))
    /\ HeapFrame

\* one pass of "for i in range(k, len(items))"
StreamItem ==
    /\ computed.op \in {"_build_min_heap", "stream"}
    /\ ~raises(computed.result)
    /\ computed.arg < Len(sample)
    /\ computed' = Computation("stream", computed.arg + 1,
                               stream_step(sample, computed.result.value, computed.arg))
    /\ HeapFrame

HeapNext == ReturnItems \/ BuildMinHeap \/ StreamItem

SpecHeap == HeapInit /\ [][HeapNext]_vars

(***************************************************************************)
(* _partition and _quicksort called on a range of a list: sample is the    *)
(* list before the call, computed the range and the list after it.         *)
(***************************************************************************)
SortInit ==
    /\ k = DEFAULT_K
    /\ zone_counts = <<>>
    /\ route_counts = <<>>
    /\ last = NoCall
    /\ repeat = NoRepeat
    /\ requests = NoRequests
    /\ z_threshold = FromInt(DEFAULT_Z_THRESHOLD)
    /\ stats_cache = <<>>
    /\ trips = <<>>
    /\ found = NoPass
    /\ sample \in HeapItemLists
    /\ computed = NoComputation

\* pi = self._partition(arr, low, high), called by _quicksort when low < high
Partition ==
    \E low, high \in 0..(Len(sample) - 1) :
        /\ low < high
        /\ computed' = Computation("_partition", <<low, high>>, _partition(sample, low, high))
        /\ HeapFrame

\* self._quicksort(arr, low, high): the first call has low = 0 and
\* high = len(arr) - 1, the recursive ones a range on one side of a pivot,
\* which is empty when high = low - 1
Quicksort ==
    \E low \in 0..Len(sample), high \in (0 - 1)..(Len(sample) - 1) :
        /\ high >= low - 1
        /\ computed' = Computation("_quicksort", <<low, high>>,
                                   [arr |-> _quicksort(sample, low, high), pi |-> low])
        /\ HeapFrame

SortNext == Partition \/ Quicksort

SpecSort == SortInit /\ [][SortNext]_vars

(***************************************************************************)
(* A selection executed call by call: every _heapify_down call and every   *)
(* _quicksort call is a step.  computed.op is the place the execution has  *)
(* reached, computed.arg its local variables (the index i of the running   *)
(* loop, the idx of the running _heapify_down, the place that call returns *)
(* to, the ranges of the _quicksort calls still to be made) and            *)
(* computed.result the list it works on.                                   *)
(***************************************************************************)
At(op, i, idx, ret, stack, arr) ==
    [op |-> op, arg |-> [i |-> i, idx |-> idx, ret |-> ret, stack |-> stack], result |-> arr]

\* the ranges _quicksort recurses on with the pivot's position kept in the
\* left one
sub_ranges_with_pivot(low, high, pi) == <<<<low, pi>>, <<pi + 1, high>>>>

\* the ranges _quicksort recurses on: low..pi-1, then pi+1..high
sub_ranges(low, high, pi) == <<<<low, pi - 1>>, <<pi + 1, high>>>>

RunInit ==
    /\ k \in 1..MaxItems
    /\ zone_counts = <<>>
    /\ route_counts = <<>>
    /\ last = NoCall
    /\ repeat = NoRepeat
    /\ requests = NoRequests
    /\ z_threshold = FromInt(DEFAULT_Z_THRESHOLD)
    /\ stats_cache = <<>>
    /\ trips = <<>>
    /\ found = NoPass
    /\ sample \in HeapItemLists
    /\ computed = At("none", 0, 0, "", <<>>, <<>>)

\* _manual_top_k up to the first pass of _build_min_heap
StartSelection ==
    /\ computed.op = "none"
    /\ computed' = IF Len(sample) <= k
                   THEN At("sort", 0, 0, "", <<>>, sample)
                   ELSE At("build", (k \div 2) - 1, 0, "", <<>>, PySlice(sample, k))
    /\ HeapFrame

\* for i in range(len(arr) // 2 - 1, -1, -1): self._heapify_down(arr, i)
BuildStep ==
    /\ computed.op = "build"
    /\ computed' = IF computed.arg.i < 0
                   THEN At("stream", k, 0, "", <<>>, computed.result)
                   ELSE At("sift", computed.arg.i - 1, computed.arg.i, "build", <<>>,
                           computed.result)
    /\ HeapFrame

\* one call of _heapify_down: it swaps and calls itself, or returns
SiftStep ==
    /\ computed.op = "sift"
    /\ computed' =
           IF smallest_index(computed.result, computed.arg.idx) # computed.arg.idx
           THEN At("sift", computed.arg.i,
                   smallest_index(computed.result, computed.arg.idx), computed.arg.ret, <<>>,
                   Swap(computed.result, computed.arg.idx,
                        smallest_index(computed.result, computed.arg.idx)))
           ELSE At(computed.arg.ret, computed.arg.i, 0, "", <<>>, computed.result)
    /\ HeapFrame

\* one pass of "for i in range(k, len(items))", up to its _heapify_down
StreamStep ==
    /\ computed.op = "stream"
    /\ computed' =
           IF computed.arg.i >= Len(sample)
           THEN At("sort", 0, 0, "", <<>>, computed.result)
           ELSE IF PyIndex(sample, computed.arg.i)[2] > computed.result[1][2]
                THEN At("sift", computed.arg.i + 1, 0, "stream", <<>>,
                        root_overwritten(computed.result, PyIndex(sample, computed.arg.i)))
                ELSE At("stream", computed.arg.i + 1, 0, "", <<>>, computed.result)
    /\ HeapFrame

\* _manual_sort_descending: a list of one entry or none is returned as it is
SortStep ==
    /\ computed.op = "sort"
    /\ computed' = IF Len(computed.result) <= 1
                   THEN At("done", 0, 0, "", <<>>, computed.result)
                   ELSE At("_quicksort", 0, 0, "",
                           <<<<0, Len(computed.result) - 1>>>>, computed.result)
    /\ HeapFrame

\* one call of _quicksort: it partitions and calls itself on both sides, or
\* returns
QuicksortStep ==
    /\ computed.op = "_quicksort"
    /\ computed' =
           IF computed.arg.stack = <<>>
           THEN At("done", 0, 0, "", <<>>, computed.result)
           ELSE IF Head(computed.arg.stack)[1] < Head(computed.arg.stack)[2]
                THEN At("_quicksort", 0, 0, "",
                        sub_ranges(Head(computed.arg.stack)[1], Head(computed.arg.stack)[2],
                                   _partition(computed.result, Head(computed.arg.stack)[1],
                                              Head(computed.arg.stack)[2]).pi)
                            \o Tail(computed.arg.stack),
                        _partition(computed.result, Head(computed.arg.stack)[1],
                                   Head(computed.arg.stack)[2]).arr)
                ELSE At("_quicksort", 0, 0, "", Tail(computed.arg.stack), computed.result)
    /\ HeapFrame

RunNext ==
    \/ StartSelection
    \/ BuildStep
    \/ SiftStep
    \/ StreamStep
    \/ SortStep
    \/ QuicksortStep

\* the interpreter runs the one thread of a call until the call returns
SpecRun == RunInit /\ [][RunNext]_vars /\ WF_vars(RunNext)

(***************************************************************************)
(* One instance of each component, called in any order.                    *)
(***************************************************************************)
InstanceZones == {<<<<1, 5>>, <<2, 9>>, <<3, 1>>, <<4, 7>>>>}

InstanceRoutes == {<<<<RouteId(1), 7>>, <<RouteId(2), 1>>, <<RouteId(3), 9>>>>}

InstanceTrips ==
    {<<Trip(1, <<10, 10, 10>>), Trip(2, <<100, 2, 4>>), Trip(3, <<10, 20, 5>>)>>}

\* TopKZones(k) and AnomalyDetector(z_threshold), and the collections their
\* caller holds
InstancesInit ==
    /\ k \in KValues
    /\ zone_counts \in InstanceZones
    /\ route_counts \in InstanceRoutes
    /\ last = NoCall
    /\ repeat = NoRepeat
    /\ requests = NoRequests
    /\ z_threshold \in ZThresholds
    /\ stats_cache = <<>>
    /\ trips \in InstanceTrips
    /\ found = NoPass
    /\ sample = <<>>
    /\ computed = NoComputation

\* the public operations of both components
InstancesNext ==
    \/ FindTopKPickups
    \/ FindTopKByRevenue
    \/ FindTopRoutes
    \/ GetTopZones
    \/ DetectFareAnomalies
    \/ DetectSpeedAnomalies
    \/ DetectDistanceTimeMismatch
    \/ DetectAllAnomalies
    \/ GetAnomalySummary

SpecInstances == InstancesInit /\ [][InstancesNext]_vars

(***************************************************************************)
(* The module-level AnalyticsService of routes/insights.py: one TopKZones  *)
(* shared by the requests the threaded server runs at the same time.  k is *)
(* top_k_finder.k, zone_counts and route_counts are the dicts built from   *)
(* the rows of the database.  A request that wrote top_k_finder.k can be   *)
(* preempted before its selection reads self.k.                            *)
(***************************************************************************)
INSIGHTS_K == 3

Metrics == {"pickups", "revenue"}

\* the k a request can carry: request.args.get('k', default=10, type=int);
\* the top-zones requests of the model carry a k >= 1
ZoneRequestKValues == 1..MaxK
RouteRequestKValues == 0..MaxK

Request(pc, op, kk, metric, result) ==
    [pc |-> pc, op |-> op, k |-> kk, metric |-> metric, result |-> result]

\* AnalyticsService(): TopKZones(k=10), AnomalyDetector(z_threshold=3.0)
ServiceInit ==
    /\ k = DEFAULT_K
    /\ zone_counts \in InstanceZones
    /\ route_counts \in InstanceRoutes
    /\ last = NoCall
    /\ repeat = NoRepeat
    /\ requests = IdleRequests
    /\ DetectorIdle

ServiceFrame == UNCHANGED <<zone_counts, route_counts, last, repeat, detector_vars>>

\* the selection of analyze_top_zones: the method reads self.k
top_zones_of(self_k, zone_data, metric) ==
    IF metric = "revenue"
    THEN find_top_k_by_revenue(self_k, zone_data)
    ELSE find_top_k_pickups(self_k, zone_data)

\* analyze_top_zones up to self.top_k_finder.k = k
WriteK(r) ==
    \E kk \in ZoneRequestKValues, metric \in Metrics :
        /\ requests[r].pc = "idle"
        /\ k' = kk
        /\ requests' = [requests EXCEPT
                            ![r] = Request("selecting", "analyze_top_zones", kk, metric,
                                           Ok(<<>>))]
        /\ ServiceFrame

\* analyze_top_zones from the selection on
SelectTopZones(r) ==
    /\ requests[r].pc = "selecting"
    /\ requests' = [requests EXCEPT
                        ![r] = Request("done", "analyze_top_zones", requests[r].k,
                                       requests[r].metric,
                                       top_zones_of(k, zone_counts, requests[r].metric))]
    /\ UNCHANGED k
    /\ ServiceFrame

\* analyze_top_routes(k): find_top_routes(route_counts, k)
AnalyzeTopRoutes(r) ==
    \E kk \in RouteRequestKValues :
        /\ requests[r].pc = "idle"
        /\ requests' = [requests EXCEPT
                            ![r] = Request("done", "analyze_top_routes", kk, "",
                                           find_top_routes(k, route_counts, Some(kk)))]
        /\ k' = k_after_call(k, Some(kk))
        /\ ServiceFrame

\* get_insights: analyze_top_zones(k=3) twice, then analyze_top_routes(k=3),
\* whose result is the one kept here
GetInsights(r) ==
    /\ requests[r].pc = "idle"
    /\ k' = INSIGHTS_K
    /\ requests' = [requests EXCEPT
                        ![r] = Request("done", "get_insights", INSIGHTS_K, "",
                                       find_top_routes(INSIGHTS_K, route_counts,
                                                       Some(INSIGHTS_K)))]
    /\ ServiceFrame

\* the response is sent; the thread takes the next request
Respond(r) ==
    /\ requests[r].pc = "done"
    /\ requests' = [requests EXCEPT ![r] = Idle]
    /\ UNCHANGED k
    /\ ServiceFrame

ServiceNext ==
    \E r \in 1..MaxRequests :
        \/ WriteK(r)
        \/ SelectTopZones(r)
        \/ AnalyzeTopRoutes(r)
        \/ GetInsights(r)
        \/ Respond(r)

SpecService == ServiceInit /\ [][ServiceNext]_vars

(***************************************************************************)
(* Properties of the selector.                                             *)
(***************************************************************************)
ZoneOps == {"find_top_k_pickups", "find_top_k_by_revenue", "get_top_zones"}

\* the k a zone operation selects with: the instance's, or get_top_zones' own
UsedK == IF last.op = "get_top_zones" THEN last.karg.val ELSE k

Returned == last.result.value

HasTie(seq) == \E i, j \in DOMAIN seq : i # j /\ seq[i][2] = seq[j][2]

\* how many entries of seq have score v
ScoreCount(seq, v) == Cardinality({i \in DOMAIN seq : seq[i][2] = v})

\* a full descending sort, by insertion
RECURSIVE RefInsert(_, _)
RefInsert(sorted, x) ==
    IF sorted = <<>> THEN <<x>>
    ELSE IF x[2] > Head(sorted)[2] THEN <<x>> \o sorted
    ELSE <<Head(sorted)>> \o RefInsert(Tail(sorted), x)

RECURSIVE RefSortDescending(_)
RefSortDescending(seq) ==
    IF seq = <<>> THEN <<>> ELSE RefInsert(RefSortDescending(Tail(seq)), Head(seq))

ScenarioA == <<<<1, 5>>, <<2, 9>>, <<3, 1>>, <<4, 7>>>>

\* C1: for every k >= 0 (k = 0 and k > |S| included) a zone selection returns
\* exactly min(k, |S|) entries and raises no error.
C1_SelectionSize ==
    (last.op \in ZoneOps /\ UsedK >= 0) =>
        /\ last.result.status = "ok"
        /\ Len(Returned) = Min(UsedK, Len(zone_counts))

\* C2: for every k <= 0 and every mapping, empty or not, a zone selection
\* returns the empty list and raises no error.
C2_NonPositiveKEmpty ==
    (last.op \in ZoneOps /\ UsedK <= 0) =>
        /\ last.result.status = "ok"
        /\ Returned = <<>>

\* C3: for every k >= 1 a zone selection returns entries of the mapping, each
\* with its own score, no id twice, and the returned scores are, as a
\* multiset, the min(k, |S|) largest scores of a full descending sort.
C3_TopKCorrect ==
    (last.op \in ZoneOps /\ UsedK >= 1) =>
        /\ last.result.status = "ok"
        /\ \A i \in DOMAIN Returned : \E j \in DOMAIN zone_counts : Returned[i] = zone_counts[j]
        /\ \A i, j \in DOMAIN Returned : Returned[i][1] = Returned[j][1] => i = j
        /\ LET reference == SubSeq(RefSortDescending(zone_counts), 1,
                                   Min(UsedK, Len(zone_counts)))
           IN  \A v \in Scores : ScoreCount(Returned, v) = ScoreCount(reference, v)

\* C3 witness: {1:5, 2:9, 3:1, 4:7} with k = 2 gave [(2, 9), (4, 7)].
C3_Witness ==
    /\ last.op \in ZoneOps
    /\ UsedK = 2
    /\ zone_counts = ScenarioA
    /\ Returned = <<<<2, 9>>, <<4, 7>>>>

\* C4: whatever list a selection operation (pickups, revenue, routes) returns
\* is in non-increasing order of score, with duplicate scores and with the
\* heap phase skipped as well.
C4_Descending ==
    (last.op # "none" /\ last.result.status = "ok") =>
        \A i \in 1..(Len(Returned) - 1) : Returned[i][2] >= Returned[i + 1][2]

\* C4 witness: a route selection, and a zone selection that skipped the heap
\* phase on an unsorted mapping with a duplicate score, both returned a list.
C4_Witness ==
    \/ /\ last.op = "find_top_routes"
       /\ last.result.status = "ok"
       /\ Len(Returned) = 2
       /\ route_counts[1][2] < route_counts[2][2]
    \/ /\ last.op = "find_top_k_pickups"
       /\ last.result.status = "ok"
       /\ Len(zone_counts) <= k
       /\ Len(Returned) >= 3
       /\ HasTie(Returned)
       /\ Returned # zone_counts

C6_RoutesHonourPassedK ==
    (last.op = "find_top_routes" /\ last.karg.given /\ last.karg.val >= 0) =>
        /\ last.result.status = "ok"
        /\ Len(Returned) = Min(last.karg.val, Len(route_counts))

(***************************************************************************)
(* Properties of the detector.  The inputs of the model are whole dollars, *)
(* half miles and whole minutes, so the exact comparisons below are made   *)
(* on integers.                                                            *)
(***************************************************************************)
NTrips == Len(trips)
FareOf(j) == ScaledInt(trips[j].fare_amount, 0)             \* dollars
HalfMilesOf(j) == ScaledInt(trips[j].trip_distance, 1)      \* twice the miles
MinutesOf(j) == ScaledInt(trips[j].trip_duration_min, 0)

\* the records of reason `reason` emitted for the trip at Python index i
RecordsFor(i, reason) ==
    {r \in DOMAIN found.anomalies :
        found.anomalies[r].index = i /\ found.anomalies[r].reason = reason}

\* all records emitted for the trip at Python index i
AllRecordsFor(i) == {r \in DOMAIN found.anomalies : found.anomalies[r].index = i}

RECURSIVE SumFares(_)
SumFares(n) == IF n = 0 THEN 0 ELSE FareOf(n) + SumFares(n - 1)

RECURSIVE SumSquaredFares(_)
SumSquaredFares(n) == IF n = 0 THEN 0 ELSE FareOf(n) * FareOf(n) + SumSquaredFares(n - 1)

\* n^2 times the population variance of the fares
ScaledVariance == NTrips * SumSquaredFares(NTrips) - SumFares(NTrips) * SumFares(NTrips)

\* std > 0 and |fare_j - mean| / std > z_threshold, in exact arithmetic:
\* (n * fare_j - sum)^2 > z_threshold^2 * (n * sumsq - sum^2)
IsFareOutlier(j) ==
    LET dev == NTrips * FareOf(j) - SumFares(NTrips)
        t == ScaledInt(z_threshold, 0)
    IN  /\ ScaledVariance > 0
        /\ dev * dev >= 1
        /\ (dev * dev - 1) \div (t * t) >= ScaledVariance

\* distance > 0 and fare / distance outside [2, 50], in exact arithmetic
IsOutsideFarePerMile(j) ==
    /\ HalfMilesOf(j) > 0
    /\ \/ 2 * FareOf(j) < FARE_PER_MILE_MIN * HalfMilesOf(j)
       \/ 2 * FareOf(j) > FARE_PER_MILE_MAX * HalfMilesOf(j)

\* C7: the fare pass emits a fare_outlier record for a trip exactly when the
\* population standard deviation of all fares is > 0 and the trip's
\* |fare - mean| / std exceeds z_threshold strictly.
C7_FareOutlierExact ==
    found.op = "detect_fare_anomalies" =>
        \A j \in 1..NTrips : (RecordsFor(j - 1, "fare_outlier") # {}) <=> IsFareOutlier(j)

\* C8: the fare pass emits a fare_per_mile_anomaly record for a trip exactly
\* when its distance is > 0 and fare / distance is < 2 or > 50; the ratios 2
\* and 50 themselves are not flagged.
C8_FarePerMileExact ==
    found.op = "detect_fare_anomalies" =>
        \A j \in 1..NTrips :
            (RecordsFor(j - 1, "fare_per_mile_anomaly") # {}) <=> IsOutsideFarePerMile(j)

\* C8 witness: the fare pass ran on a trip at exactly 2 dollars a mile and a
\* trip at exactly 50, flagged neither, and flagged a third trip.
C8_Witness ==
    /\ found.op = "detect_fare_anomalies"
    /\ \E a, b, c \in 1..NTrips :
        /\ HalfMilesOf(a) > 0 /\ 2 * FareOf(a) = FARE_PER_MILE_MIN * HalfMilesOf(a)
        /\ RecordsFor(a - 1, "fare_per_mile_anomaly") = {}
        /\ HalfMilesOf(b) > 0 /\ 2 * FareOf(b) = FARE_PER_MILE_MAX * HalfMilesOf(b)
        /\ RecordsFor(b - 1, "fare_per_mile_anomaly") = {}
        /\ RecordsFor(c - 1, "fare_per_mile_anomaly") # {}
        /\ RecordsFor(c - 1, "fare_outlier") = {}

\* the mean the pass computes
PassMean == _calculate_mean([i \in 1..NTrips |-> trips[i].fare_amount])

\* C9: for one trip the fare pass emits at most one record per sub-check and
\* nothing else, so zero, one or two records; a trip the z-score check flags
\* and whose fare per mile is out of range gets both, under the same index.
C9_RecordsPerTrip ==
    found.op = "detect_fare_anomalies" =>
        LET fare_mean == PassMean
            fare_std == _calculate_std([i \in 1..NTrips |-> trips[i].fare_amount], fare_mean)
        IN  \A j \in 1..NTrips :
                /\ Cardinality(RecordsFor(j - 1, "fare_outlier")) <= 1
                /\ Cardinality(RecordsFor(j - 1, "fare_per_mile_anomaly")) <= 1
                /\ AllRecordsFor(j - 1) =
                       RecordsFor(j - 1, "fare_outlier")
                           \cup RecordsFor(j - 1, "fare_per_mile_anomaly")
                /\ ( /\ fare_outlier_check(j - 1, trips[j], fare_mean, fare_std,
                                           z_threshold) # <<>>
                     /\ IsOutsideFarePerMile(j) )
                   => Cardinality(AllRecordsFor(j - 1)) = 2

\* C9 witness: fare 100 over 1 mile among fare-10 trips got both records.
C9_Witness ==
    /\ found.op = "detect_fare_anomalies"
    /\ NTrips = 3
    /\ \E j \in 1..NTrips :
        /\ FareOf(j) = 100 /\ HalfMilesOf(j) = 2
        /\ \A i \in 1..NTrips : i # j => FareOf(i) = 10
        /\ RecordsFor(j - 1, "fare_outlier") # {}
        /\ RecordsFor(j - 1, "fare_per_mile_anomaly") # {}

IsSkippedBySpeed(j) == HalfMilesOf(j) <= 0 \/ MinutesOf(j) <= 0

SpeedOf(j) == speed_mph(trips[j].trip_distance, trips[j].trip_duration_min)

IsTooFast(j) == ~IsSkippedBySpeed(j) /\ FGt(SpeedOf(j), FromInt(SPEED_MAX_MPH))

IsTooSlow(j) ==
    /\ ~IsSkippedBySpeed(j)
    /\ FLt(SpeedOf(j), FromInt(SPEED_MIN_MPH))
    /\ HalfMilesOf(j) > 1

\* C10: the speed pass emits nothing for a trip with distance <= 0 or
\* duration <= 0; otherwise exactly one speed_too_high record when
\* speed > 80, exactly one speed_too_low record when speed < 1 and
\* distance > 0.5, nothing otherwise, and never both for one trip.
C10_SpeedRecords ==
    found.op = "detect_speed_anomalies" =>
        \A j \in 1..NTrips :
            /\ Cardinality(RecordsFor(j - 1, "speed_too_high")) = (IF IsTooFast(j) THEN 1 ELSE 0)
            /\ Cardinality(RecordsFor(j - 1, "speed_too_low")) = (IF IsTooSlow(j) THEN 1 ELSE 0)
            /\ Cardinality(AllRecordsFor(j - 1)) <= 1
            /\ AllRecordsFor(j - 1) =
                   RecordsFor(j - 1, "speed_too_high") \cup RecordsFor(j - 1, "speed_too_low")

\* C10 witness: the speed pass flagged a 120 mph trip as too high and a trip
\* of half a mph over one mile as too low, and left a trip at exactly 80 mph
\* alone.
C10_Witness ==
    /\ found.op = "detect_speed_anomalies"
    /\ \E a, b, c \in 1..NTrips :
        /\ HalfMilesOf(a) = 20 /\ MinutesOf(a) = 5
        /\ RecordsFor(a - 1, "speed_too_high") # {}
        /\ ~IsSkippedBySpeed(b) /\ SpeedOf(b) = FromInt(SPEED_MAX_MPH)
        /\ AllRecordsFor(b - 1) = {}
        /\ HalfMilesOf(c) = 2 /\ MinutesOf(c) = 120
        /\ RecordsFor(c - 1, "speed_too_low") # {}

\* C10 witness, second case: the speed pass left alone a trip with no
\* distance and a trip of half a mph over half a mile.
C10_WitnessSkipped ==
    /\ found.op = "detect_speed_anomalies"
    /\ \E a, b \in 1..NTrips :
        /\ HalfMilesOf(a) = 0 /\ MinutesOf(a) = 10 /\ AllRecordsFor(a - 1) = {}
        /\ HalfMilesOf(b) = 1 /\ ~IsSkippedBySpeed(b)
        /\ FLt(SpeedOf(b), FromInt(SPEED_MIN_MPH)) /\ AllRecordsFor(b - 1) = {}

(***************************************************************************)
(* Properties of the third pass and of the reports.                        *)
(***************************************************************************)
IsSkippedByMismatch(j) == HalfMilesOf(j) <= 0 \/ MinutesOf(j) <= 0

\* duration outside [0.5 * expected, 1.5 * expected] in exact arithmetic:
\* with h half miles, expected = (h / 2) / 15 * 60 = 2 * h minutes
IsOutsideExpected(j) ==
    /\ ~IsSkippedByMismatch(j)
    /\ \/ MinutesOf(j) < HalfMilesOf(j)
       \/ MinutesOf(j) > 3 * HalfMilesOf(j)

\* C11: the mismatch pass emits nothing for a trip with distance <= 0 or
\* duration <= 0; otherwise exactly one distance_time_mismatch record when
\* the duration is below 0.5 * expected or above 1.5 * expected, with
\* expected = distance / 15 * 60, and none when it lies in the closed
\* interval between the two.
C11_MismatchRecords ==
    found.op = "detect_distance_time_mismatch" =>
        \A j \in 1..NTrips :
            /\ Cardinality(RecordsFor(j - 1, "distance_time_mismatch")) =
                   (IF IsOutsideExpected(j) THEN 1 ELSE 0)
            /\ AllRecordsFor(j - 1) = RecordsFor(j - 1, "distance_time_mismatch")

\* the Python indices of the trips with at least one emitted record
FlaggedTrips == {i \in 0..(NTrips - 1) : AllRecordsFor(i) # {}}

\* is the float x the quotient a / b rounded to nearest (a >= 0, b > 0)
IsQuotient(x, a, b) ==
    IF a = 0 THEN x = Zero
    ELSE /\ x.e < 0
         /\ 2 * Abs(x.m * b - a * Pow2(0 - x.e)) <= b

\* C12: detect_all_anomalies returns the lists of the three passes as the
\* passes return them, total_anomalous_trips = the number of distinct trip
\* indices in the three lists (a trip with several records counts once) and
\* anomaly_rate = total_anomalous_trips / len(trips), 0 for an empty list.
C12_AllAnomalies ==
    (found.op = "detect_all_anomalies" /\ found.status = "ok") =>
        /\ found.result.fare_anomalies = detect_fare_anomalies(z_threshold, trips).value
        /\ found.result.speed_anomalies = detect_speed_anomalies(trips)
        /\ found.result.mismatch_anomalies = detect_distance_time_mismatch(trips)
        /\ found.result.total_anomalous_trips = Cardinality(FlaggedTrips)
        /\ IF NTrips = 0
           THEN found.result.anomaly_rate = Zero
           ELSE IsQuotient(found.result.anomaly_rate, Cardinality(FlaggedTrips), NTrips)

\* C12 witness: of three trips one got both fare records and one got a
\* record from each of the three passes; two trips are counted, five records.
C12_Witness ==
    /\ found.op = "detect_all_anomalies"
    /\ NTrips = 3
    /\ \E a, b \in 1..NTrips :
        /\ RecordsFor(a - 1, "fare_outlier") # {}
        /\ RecordsFor(a - 1, "fare_per_mile_anomaly") # {}
        /\ RecordsFor(b - 1, "fare_per_mile_anomaly") # {}
        /\ RecordsFor(b - 1, "speed_too_high") # {}
        /\ RecordsFor(b - 1, "distance_time_mismatch") # {}
    /\ found.result.total_anomalous_trips = 2
    /\ Len(found.anomalies) = 5
    /\ found.result.anomaly_rate = FDiv(FromInt(2), FromInt(3))

\* C13: get_anomaly_summary reports total_trips = len(trips),
\* total_anomalies = the number of distinct flagged trips, and per pass the
\* number of records of the pass list, so that the three counts may sum to
\* more than total_anomalies and fare_anomalies may exceed the flagged trips.
C13_SummaryCounts ==
    (found.op = "get_anomaly_summary" /\ found.status = "ok") =>
        /\ found.result.total_trips = NTrips
        /\ found.result.total_anomalies = Cardinality(FlaggedTrips)
        /\ found.result.fare_anomalies = Len(detect_fare_anomalies(z_threshold, trips).value)
        /\ found.result.speed_anomalies = Len(detect_speed_anomalies(trips))
        /\ found.result.mismatch_anomalies = Len(detect_distance_time_mismatch(trips))
        /\ found.result.fare_anomalies + found.result.speed_anomalies
               + found.result.mismatch_anomalies = Len(found.anomalies)

\* C13 witness: one trip of three is flagged, by both fare sub-checks, so
\* fare_anomalies = 2 exceeds total_anomalies = 1.
C13_Witness ==
    /\ found.op = "get_anomaly_summary"
    /\ found.result.total_trips = 3
    /\ found.result.total_anomalies = 1
    /\ found.result.fare_anomalies = 2
    /\ found.result.speed_anomalies = 0
    /\ found.result.mismatch_anomalies = 0

\* every emitted record carries the position of a trip of the list and that
\* trip's trip_id
RecordsNameTheirTrip ==
    \A r \in DOMAIN found.anomalies :
        /\ found.anomalies[r].index \in 0..(NTrips - 1)
        /\ found.anomalies[r].trip_id = trips[found.anomalies[r].index + 1].trip_id

\* C18: every pass and both reports leave the trip list and every trip
\* record as they were, and every record they emit has index = the position
\* of its trip in the list and trip_id = that trip's trip_id.
C18_TripsOnlyRead == [][trips' = trips /\ RecordsNameTheirTrip']_vars

\* C18 witness: a report on three trips emitted records for the first and
\* for the last one.
C18_Witness ==
    /\ found.op = "detect_all_anomalies"
    /\ NTrips = 3
    /\ AllRecordsFor(0) # {}
    /\ AllRecordsFor(1) = {}
    /\ AllRecordsFor(2) # {}
    /\ RecordsNameTheirTrip

(***************************************************************************)
(* Properties of the detector on degenerate input.                         *)
(***************************************************************************)
TripFields == {"fare_amount", "trip_distance", "trip_duration_min"}

\* the reasons of the records emitted for the trip at Python index i, in the
\* order they were emitted
ReasonsFor(i) ==
    LET own == SelectSeq(found.anomalies, LAMBDA a : a.index = i)
    IN  [r \in DOMAIN own |-> own[r].reason]

\* the reasons the speed and the mismatch checks give for trip j on its own
AloneReasons(checks) == [r \in DOMAIN checks |-> checks[r].reason]

\* C14: a trip record without fare_amount, trip_distance or trip_duration_min
\* makes no pass and no report raise; the speed and the mismatch pass skip
\* such a record and analyse every other record of the list as they would
\* analyse it alone.
C14_MissingFieldTolerated ==
    found.op # "none" =>
        /\ found.status # "KeyError"
        /\ found.op = "detect_speed_anomalies" =>
               \A j \in 1..NTrips :
                   ReasonsFor(j - 1) =
                       (IF {"trip_distance", "trip_duration_min"} \subseteq DOMAIN trips[j]
                        THEN AloneReasons(speed_checks(0, trips[j]))
                        ELSE <<>>)
        /\ found.op = "detect_distance_time_mismatch" =>
               \A j \in 1..NTrips :
                   ReasonsFor(j - 1) =
                       (IF {"trip_distance", "trip_duration_min"} \subseteq DOMAIN trips[j]
                        THEN AloneReasons(mismatch_checks(0, trips[j]))
                        ELSE <<>>)

\* the fares of the list, for a list whose records all have one
FaresOfTrips == [i \in 1..NTrips |-> trips[i].fare_amount]

\* C15: no detector operation divides by zero, whatever the numbers; in the
\* fare pass a trip with distance <= 0 still gets its z-score check, and
\* with a fare std of 0 a trip with distance > 0 still gets its
\* fare-per-mile check.
C15_NoDivisionByZero ==
    found.op # "none" =>
        /\ found.status # "ZeroDivisionError"
        /\ (found.op = "detect_fare_anomalies" /\ found.status = "ok" /\ NTrips > 0) =>
               LET fare_mean == _calculate_mean(FaresOfTrips)
                   fare_std == _calculate_std(FaresOfTrips, fare_mean)
               IN  \A j \in 1..NTrips :
                       /\ FLe(trips[j].trip_distance, Zero) =>
                              ((RecordsFor(j - 1, "fare_outlier") # {}) <=>
                                   (fare_outlier_check(j - 1, trips[j], fare_mean, fare_std,
                                                       z_threshold) # <<>>))
                       /\ (fare_std = Zero /\ FGt(trips[j].trip_distance, Zero)) =>
                              ((RecordsFor(j - 1, "fare_per_mile_anomaly") # {}) <=>
                                   (fare_per_mile_check(j - 1, trips[j]) # <<>>))

(***************************************************************************)
(* Properties of the statistical helpers.                                  *)
(***************************************************************************)
\* the sum of a list, added up from the left
RECURSIVE RefSum(_)
RefSum(seq) ==
    IF seq = <<>> THEN Zero ELSE FAdd(RefSum(SubSeq(seq, 1, Len(seq) - 1)), seq[Len(seq)])

AllEqual(seq) == \A i, j \in DOMAIN seq : seq[i] = seq[j]

\* C16: _calculate_mean returns 0 for an empty list and sum / len otherwise;
\* _calculate_std returns 0 for an empty list and 0 for a list of equal
\* values, so that the z-score check flags none of them.
C16_MeanAndStd ==
    /\ computed.op = "_calculate_mean" =>
           computed.result =
               (IF sample = <<>> THEN Zero ELSE FDiv(RefSum(sample), FromInt(Len(sample))))
    /\ (computed.op = "_calculate_std" /\ AllEqual(sample)) =>
           /\ computed.result = Zero
           /\ \A i \in DOMAIN sample :
                  fare_outlier_check(i - 1, [trip_id |-> i, fare_amount |-> sample[i]],
                                     _calculate_mean(sample), computed.result,
                                     z_threshold) = <<>>

\* one Newton step x <- (x + n / x) / 2, for x # 0
NewtonStep(n, x) == FDiv(FAdd(x, FDiv(n, x)), FromInt(2))

TenNewtonSteps(n) ==
    LET x0 == FDiv(n, FromInt(2))
        x1 == NewtonStep(n, x0)
        x2 == NewtonStep(n, x1)
        x3 == NewtonStep(n, x2)
        x4 == NewtonStep(n, x3)
        x5 == NewtonStep(n, x4)
        x6 == NewtonStep(n, x5)
        x7 == NewtonStep(n, x6)
        x8 == NewtonStep(n, x7)
        x9 == NewtonStep(n, x8)
    IN  NewtonStep(n, x9)

\* C17: _manual_sqrt returns 0 for every n <= 0; for n > 0 it returns the
\* result of exactly 10 Newton steps x <- (x + n / x) / 2 from x0 = n / 2,
\* which for n = 4 is exactly 2.
C17_ManualSqrt ==
    computed.op = "_manual_sqrt" =>
        /\ ~raises(computed.result)
        /\ computed.arg.m <= 0 => computed.result = Zero
        /\ computed.arg.m > 0 => computed.result = TenNewtonSteps(computed.arg)
        /\ computed.arg = FromInt(4) => computed.result = FromInt(2)

(***************************************************************************)
(* Properties of the instances.                                            *)
(***************************************************************************)
\* C19: no call changes an instance field or the caller's mapping: k and
\* z_threshold keep their constructed values (find_top_routes with a k of its
\* own included), stats_cache stays empty, zone_counts and route_counts stay
\* as the caller built them.
C19_InstanceFieldsKept ==
    [][<<k, z_threshold, stats_cache, zone_counts, route_counts>>'
           = <<k, z_threshold, <<>>, zone_counts, route_counts>>]_vars

\* C19 witness: find_top_routes selected with a k of its own, different from
\* the instance's, after the detector had flagged trips of a non-empty list.
C19_Witness ==
    /\ last.op = "find_top_routes"
    /\ last.karg.given /\ last.karg.val > 0 /\ last.karg.val # k
    /\ last.result.status = "ok"
    /\ Len(last.result.value) = last.karg.val
    /\ found.op = "detect_all_anomalies"
    /\ Len(found.anomalies) > 0
    /\ stats_cache = <<>>

(***************************************************************************)
(* Properties of the heap of _manual_top_k.                                *)
(***************************************************************************)
\* every node's score is at most each of its children's scores
IsMinHeap(heap) ==
    \A i \in 1..Len(heap) : \A c \in {2 * i, 2 * i + 1} :
        c <= Len(heap) => heap[i][2] <= heap[c][2]

\* the root holds a minimum score of the heap
RootIsMinimum(heap) == \A j \in 1..Len(heap) : heap[1][2] <= heap[j][2]

\* the pass before this state took the item at index computed.arg - 1 and
\* put it at the root
RootWasReplaced ==
    /\ computed.op = "stream"
    /\ ~raises(computed.result)
    /\ \E j \in 1..Len(computed.result.value) :
           computed.result.value[j] = PyIndex(sample, computed.arg - 1)

\* C20: when |items| > k >= 1, the heap of k entries is a min-heap with a
\* minimum score at its root after _build_min_heap and after every pass of
\* the loop, the passes that replaced the root and sifted it down included.
C20_MinHeapKept ==
    (computed.op \in {"_build_min_heap", "stream"} /\ k >= 1) =>
        /\ ~raises(computed.result)
        /\ Len(computed.result.value) = k
        /\ IsMinHeap(computed.result.value)
        /\ RootIsMinimum(computed.result.value)

\* C20 witness: a pass replaced the root of a heap of four or five nodes and
\* the new entry sank two levels, to a grandchild of the root.
C20_Witness ==
    /\ k >= 4
    /\ RootWasReplaced
    /\ computed.result.value[4] = PyIndex(sample, computed.arg - 1)
    /\ computed.result.value[1][2] < computed.result.value[2][2]

\* the entries a heap holds
Entries(heap) == {heap[j] : j \in 1..Len(heap)}

\* C21: a pass of the loop keeps the heap at k entries; it puts the item in
\* the place of the root's entry exactly when the item's score is strictly
\* greater than the root's, and otherwise (a tie with the root included)
\* leaves the heap as it was.
C21_StrictReplacement ==
    [][(computed'.op = "stream" /\ k >= 1) =>
          /\ ~raises(computed'.result)
          /\ Len(computed'.result.value) = k
          /\ IF PyIndex(sample, computed.arg)[2] > computed.result.value[1][2]
             THEN Entries(computed'.result.value) =
                      (Entries(computed.result.value) \ {computed.result.value[1]})
                          \cup {PyIndex(sample, computed.arg)}
             ELSE computed'.result.value = computed.result.value]_vars

\* C21 witness: the pass before this state took an item whose score equals
\* the root's, and the heap of two or more entries does not hold the item.
C21_Witness ==
    /\ computed.op = "stream"
    /\ k >= 2
    /\ ~raises(computed.result)
    /\ PyIndex(sample, computed.arg - 1)[2] = computed.result.value[1][2]
    /\ PyIndex(sample, computed.arg - 1) \notin Entries(computed.result.value)

(***************************************************************************)
(* Properties of _partition and _quicksort.                                *)
(***************************************************************************)
\* the range of the call the state records, as Python indices
RangeLow == computed.arg[1]
RangeHigh == computed.arg[2]

\* the list after the call
Sorted == computed.result.arr

\* the entries of arr at the Python indices low..high
EntriesIn(arr, low, high) == {arr[j + 1] : j \in low..high}

\* the call permuted the entries of its range and touched nothing else
RangePermuted ==
    /\ Len(Sorted) = Len(sample)
    /\ EntriesIn(Sorted, RangeLow, RangeHigh) = EntriesIn(sample, RangeLow, RangeHigh)
    /\ \A j \in 0..(Len(sample) - 1) :
           (j < RangeLow \/ j > RangeHigh) => Sorted[j + 1] = sample[j + 1]

\* C22: _partition takes the score of arr[high] as pivot and returns p in
\* low..high with the pivot's entry at p, only strictly greater scores in
\* low..p-1, only scores <= the pivot in p+1..high, the range permuted and
\* the rest untouched; _quicksort, recursing on both sides, leaves its range
\* in non-increasing order of score, permuted, and the rest untouched.
C22_PartitionContract ==
    /\ computed.op = "_partition" =>
          /\ computed.result.pi \in RangeLow..RangeHigh
          /\ Sorted[computed.result.pi + 1] = sample[RangeHigh + 1]
          /\ \A j \in RangeLow..(computed.result.pi - 1) :
                 Sorted[j + 1][2] > sample[RangeHigh + 1][2]
          /\ \A j \in (computed.result.pi + 1)..RangeHigh :
                 Sorted[j + 1][2] <= sample[RangeHigh + 1][2]
          /\ RangePermuted
    /\ computed.op = "_quicksort" =>
          /\ \A j \in RangeLow..(RangeHigh - 1) : Sorted[j + 1][2] >= Sorted[j + 2][2]
          /\ RangePermuted

\* C22 witness: a partition of an inner range of four entries whose pivot
\* ended strictly inside the range, with an entry equal to the pivot on its
\* right and a greater one on its left.
C22_Witness ==
    /\ computed.op = "_partition"
    /\ RangeLow > 0
    /\ RangeHigh - RangeLow >= 3
    /\ computed.result.pi > RangeLow
    /\ computed.result.pi < RangeHigh
    /\ \E j \in (computed.result.pi + 1)..RangeHigh :
           Sorted[j + 1][2] = sample[RangeHigh + 1][2]
    /\ Sorted # sample

(***************************************************************************)
(* Termination of a selection.                                             *)
(***************************************************************************)
\* a _heapify_down call that calls itself does so with a greater index
SiftDescends ==
    (computed.op = "sift" /\ computed'.op = "sift") => computed'.arg.idx > computed.arg.idx

\* the ranges a _quicksort call recurses on lie inside its own range and are
\* shorter than it
RangesShrink ==
    (computed.op = "_quicksort" /\ computed'.op = "_quicksort"
                                /\ computed.arg.stack # <<>>) =>
        \A r \in 1..(Len(computed'.arg.stack) - Len(computed.arg.stack) + 1) :
            /\ computed'.arg.stack[r][1] >= Head(computed.arg.stack)[1]
            /\ computed'.arg.stack[r][2] <= Head(computed.arg.stack)[2]
            /\ computed'.arg.stack[r][2] - computed'.arg.stack[r][1]
                   < Head(computed.arg.stack)[2] - Head(computed.arg.stack)[1]

\* C23: for every k >= 1 a selection ends: every chain of _heapify_down
\* calls moves to a greater index, every _quicksort call recurses on
\* shorter ranges, and the execution reaches its return.
C23_SelectionTerminates ==
    /\ [][SiftDescends /\ RangesShrink]_vars
    /\ <>(computed.op = "done")

\* C23 witness: a selection of four out of five entries of equal score has
\* returned, with the list select_sorted returns.
C23_Witness ==
    /\ computed.op = "done"
    /\ k = 4
    /\ Len(sample) = 5
    /\ \A j \in 1..Len(sample) : sample[j][2] = sample[1][2]
    /\ Ok(computed.result) = select_sorted(sample, k)

(***************************************************************************)
(* Properties of the service.                                              *)
(***************************************************************************)
\* C24: an analyze_top_zones request selects with the k it passed, whatever
\* the other request did in between: its result has min(k, number of zones)
\* entries.
C24_RequestUsesOwnK ==
    \A r \in 1..MaxRequests :
        (requests[r].pc = "done" /\ requests[r].op = "analyze_top_zones") =>
            /\ requests[r].result.status = "ok"
            /\ Len(requests[r].result.value) = Min(requests[r].k, Len(zone_counts))

\* C25: analyze_top_routes(k) returns what a service with the same data and
\* no earlier call returns for that k, for every k.
C25_RoutesIndependentOfHistory ==
    \A r \in 1..MaxRequests :
        (requests[r].pc = "done" /\ requests[r].op = "analyze_top_routes") =>
            requests[r].result = find_top_routes(DEFAULT_K, route_counts, Some(requests[r].k))

(***************************************************************************)
(* Relations between the passes of the detector.                           *)
(***************************************************************************)
\* the trip indices of the records of a list
Indices(records) == {records[r].index : r \in 1..Len(records)}

\* C26: every trip the speed pass flags is flagged by the mismatch pass too,
\* so total_anomalous_trips is the number of distinct trips of the fare and
\* mismatch lists.
C26_SpeedWithinMismatch ==
    (found.op = "detect_all_anomalies" /\ found.status = "ok") =>
        /\ Indices(found.result.speed_anomalies) \subseteq
               Indices(found.result.mismatch_anomalies)
        /\ Indices(detect_speed_anomalies(trips)) \subseteq
               Indices(detect_distance_time_mismatch(trips))
        /\ found.result.total_anomalous_trips =
               Cardinality(Indices(found.result.fare_anomalies)
                               \cup Indices(found.result.mismatch_anomalies))

\* the reasons of a list of records
Reasons(records) == {records[r].reason : r \in 1..Len(records)}

\* C27: at the default threshold of 3.0 the fare pass emits no fare_outlier
\* record for a list of ten trips or fewer, whatever the fares.
C27_NoOutlierAmongFew ==
    (/\ found.op = "detect_fare_anomalies"
     /\ found.status = "ok"
     /\ z_threshold = FromInt(DEFAULT_Z_THRESHOLD)
     /\ Len(trips) <= 10) =>
        "fare_outlier" \notin Reasons(found.anomalies)

\* the number of distinct trips a list of records names
Distinct(records) == Cardinality(Indices(records))

\* C28: in every result of detect_all_anomalies the total is at least the
\* number of distinct trips of each pass and at most the number of trips and
\* the number of records; the fare list has at most two records a trip, the
\* speed and mismatch lists at most one; the rate lies between 0 and 1.
C28_ResultBounds ==
    (found.op = "detect_all_anomalies" /\ found.status = "ok") =>
        LET r == found.result
            records == Len(r.fare_anomalies) + Len(r.speed_anomalies)
                           + Len(r.mismatch_anomalies)
        IN  /\ Distinct(r.fare_anomalies) <= r.total_anomalous_trips
            /\ Distinct(r.speed_anomalies) <= r.total_anomalous_trips
            /\ Distinct(r.mismatch_anomalies) <= r.total_anomalous_trips
            /\ r.total_anomalous_trips <= Len(trips)
            /\ r.total_anomalous_trips <= records
            /\ Len(r.fare_anomalies) <= 2 * Len(trips)
            /\ Len(r.speed_anomalies) <= Len(trips)
            /\ Len(r.mismatch_anomalies) <= Len(trips)
            /\ FLe(Zero, r.anomaly_rate)
            /\ FLe(r.anomaly_rate, FromInt(1))

\* C28 witness: all three trips are flagged, no pass flags them all, and
\* there are more records than trips, two of them for one trip in the fare
\* list.
C28_Witness ==
    /\ found.op = "detect_all_anomalies"
    /\ found.status = "ok"
    /\ Len(trips) = 3
    /\ found.result.total_anomalous_trips = 3
    /\ found.result.anomaly_rate = FromInt(1)
    /\ Distinct(found.result.fare_anomalies) < 3
    /\ Distinct(found.result.speed_anomalies) < 3
    /\ Distinct(found.result.mismatch_anomalies) < 3
    /\ Len(found.result.fare_anomalies) > Distinct(found.result.fare_anomalies)
    /\ Len(found.anomalies) > 3

NonDecreasing(records) ==
    \A r \in 1..(Len(records) - 1) : records[r].index <= records[r + 1].index

Increasing(records) ==
    \A r \in 1..(Len(records) - 1) : records[r].index < records[r + 1].index

\* a trip's fare_outlier record stands right before its fare_per_mile_anomaly
\* record
OutlierFirst(records) ==
    \A r, q \in 1..Len(records) :
        (/\ records[r].index = records[q].index
         /\ records[r].reason = "fare_outlier"
         /\ records[q].reason = "fare_per_mile_anomaly") => q = r + 1

\* C29: each pass returns its records in input order: the indices of the
\* speed and the mismatch list increase strictly, those of the fare list
\* never decrease, and a trip's fare_outlier record comes immediately before
\* the same trip's fare_per_mile_anomaly record.
C29_InputOrder ==
    /\ (found.op = "detect_fare_anomalies" /\ found.status = "ok") =>
            NonDecreasing(found.anomalies) /\ OutlierFirst(found.anomalies)
    /\ found.op = "detect_speed_anomalies" => Increasing(found.anomalies)
    /\ found.op = "detect_distance_time_mismatch" => Increasing(found.anomalies)
    /\ (found.op = "detect_all_anomalies" /\ found.status = "ok") =>
            /\ NonDecreasing(found.result.fare_anomalies)
            /\ OutlierFirst(found.result.fare_anomalies)
            /\ Increasing(found.result.speed_anomalies)
            /\ Increasing(found.result.mismatch_anomalies)

\* C29 witness: the fare list holds both records of one trip after a record
\* of an earlier trip, and the speed and the mismatch list two records each.
C29_Witness ==
    /\ found.op = "detect_all_anomalies"
    /\ found.status = "ok"
    /\ \E r \in 2..(Len(found.result.fare_anomalies) - 1) :
           /\ found.result.fare_anomalies[r].reason = "fare_outlier"
           /\ found.result.fare_anomalies[r + 1].reason = "fare_per_mile_anomaly"
           /\ found.result.fare_anomalies[r + 1].index = found.result.fare_anomalies[r].index
           /\ found.result.fare_anomalies[r - 1].index < found.result.fare_anomalies[r].index
    /\ Len(found.result.speed_anomalies) = 2
    /\ Len(found.result.mismatch_anomalies) >= 2

\* the items the passes have handled: items[0..i], with i the index of the
\* item of the last pass
Handled == {sample[j] : j \in 1..computed.arg}

\* how many of the entries have the score v
Scoring(entries, v) == Cardinality({e \in entries : e[2] = v})

\* the n entries of greatest score among the entries
RECURSIVE Largest(_, _)
Largest(entries, n) ==
    IF n = 0 \/ entries = {} THEN {}
    ELSE LET top == CHOOSE e \in entries : \A f \in entries : e[2] >= f[2]
         IN  {top} \cup Largest(entries \ {top}, n - 1)

\* C30: when |items| > k >= 1, after the pass for the item at index i the
\* scores in the heap are, counted with their repetitions, the k largest
\* scores of items[0..i], and the heap holds k different entries of
\* items[0..i].
C30_HeapHoldsLargest ==
    (computed.op = "stream" /\ k >= 1) =>
        /\ ~raises(computed.result)
        /\ Entries(computed.result.value) \subseteq Handled
        /\ Cardinality(Entries(computed.result.value)) = k
        /\ Len(computed.result.value) = k
        /\ \A v \in HeapScores :
               ScoreCount(computed.result.value, v) = Scoring(Largest(Handled, k), v)

\* C30 witness: five items with k = 3, the last pass done; two passes
\* replaced the root, the heap holds a repeated score and an item of that
\* score stayed outside.
C30_Witness ==
    /\ computed.op = "stream"
    /\ k = 3
    /\ computed.arg = 5
    /\ Len(sample) = 5
    /\ sample[4] \in Entries(computed.result.value)
    /\ sample[5] \in Entries(computed.result.value)
    /\ \E a, b \in Entries(computed.result.value) : a # b /\ a[2] = b[2]
    /\ \E a \in Entries(computed.result.value), b \in Handled \ Entries(computed.result.value) :
           a[2] = b[2]

====
